---- MODULE Spec2Model ----
(***************************************************************************)
(* Disnake-Bot-Template: the plug-in loader (utils/utils.py CogManager),   *)
(* the configuration loader (utils/utils.py ConfigManager), the error      *)
(* presenter and the application shell (main.py Bot).                      *)
(*                                                                         *)
(* Python strings that the code slices or searches (paths, file names,     *)
(* extension identifiers) are sequences of one-character strings, so that  *)
(* endswith, replace and the slices [:-1] and [:-3] are computed as the    *)
(* code computes them.                                                     *)
(***************************************************************************)
EXTENDS Integers, Sequences, FiniteSets, TLC

VARIABLES
    \* ---- plug-in loader and application shell
    bot,          \* the object CogManager was given: "InteractionBot" | "Any"
    cwd,          \* os.getcwd() when CogManager was constructed
    listing,      \* os.listdir(self.path), in enumeration order
    valid,        \* the plug-in files whose unit sets up without raising
    cogs,         \* CogManager.cogs
    errors,       \* CogManager.errors: failure key -> exception
    extensions,   \* the identifiers the bot holds as loaded extensions
    passes,       \* number of load_cogs calls so far
    lastPass,     \* what the latest load_cogs call did
    connected,    \* the shell's state: FALSE Disconnected, TRUE Connected
    readyEvents,  \* number of readiness notifications handled
    report,       \* what the latest on_ready logged
    helloReplies, \* replies sent by the hello command
    \* ---- configuration loader
    configFile,   \* data/config.json as the latest load_configs call found it
    config,       \* ConfigManager.config
    outcome,      \* how the latest load_configs call ended
    cfgRaised,    \* whether the latest load_configs call raised to its caller
    configBefore, \* ConfigManager.config when the latest load_configs call began
    loads,        \* number of load_configs calls so far
    okLoads,      \* number of them that replaced the configuration
    token,        \* what the latest get_token call returned
    tokenRead,    \* whether get_token was called since the latest load_configs
    \* ---- error presenter and the shell's error handler
    event,        \* the error of the latest command-dispatch error event
    handler,      \* "idle" | "delivered" | "replied" | "raised"
    replies,      \* the messages sent on the latest event's interaction
    events,       \* number of command-dispatch error events so far
    \* ---- ErrorEmbed
    embedArgs,    \* the (error, additional_info) of the latest create_error_embed call
    embed,        \* the embed that call returned
    embeds,       \* number of create_error_embed calls so far
    \* ---- the shared logger
    handlers,     \* the handlers of the 'BOT' logger, in the order they were added
    record,       \* the latest LogRecord, as its handlers left it
    console,      \* the lines written to standard output
    logFile,      \* the lines written to bot.log
    records       \* number of records logged so far

cogVars == <<bot, cwd, listing, valid, cogs, errors, extensions, passes,
             lastPass, connected, readyEvents, report, helloReplies>>

cfgVars == <<configFile, config, outcome, cfgRaised, configBefore, loads,
             okLoads, token, tokenRead>>

errVars == <<event, handler, replies, events>>

embVars == <<embedArgs, embed, embeds>>

logVars == <<handlers, record, console, logFile, records>>

vars == <<cogVars, cfgVars, errVars, embVars, logVars>>

----------------------------------------------------------------------------
(* Bounds of the model *)

MaxFiles == 3
MaxPasses == 2
MaxLoads == 3
MaxEvents == 2
MaxEmbeds == 2
MaxRecords == 2

----------------------------------------------------------------------------
(* Strings *)

S_cogs == <<"c", "o", "g", "s">>
S_py == <<".", "p", "y">>
F_a == <<"a", ".", "p", "y">>
F_b == <<"b", ".", "p", "y">>
F_example == <<"e", "x", "a", "m", "p", "l", "e", ".", "p", "y">>
F_notes == <<"n", ".", "m", "d">>

\* The names a plug-in directory may hold: three source units and one file
\* that is no plug-in.
FileNames == {F_a, F_b, F_example, F_notes}

\* Working directories: the filesystem root and a directory below it.
Cwds == {<<"/">>, <<"/", "b">>}

\* str.endswith
EndsWith(s, suffix) ==
    /\ Len(s) >= Len(suffix)
    /\ SubSeq(s, Len(s) - Len(suffix) + 1, Len(s)) = suffix

\* s[:-n]
DropLast(s, n) == SubSeq(s, 1, Len(s) - n)

\* str.replace(old, new) for one-character old and new
Replace(s, old, new) == [i \in 1..Len(s) |-> IF s[i] = old THEN new ELSE s[i]]

\* os.path.join(a, p) on POSIX
PathJoin(a, p) ==
    IF Len(p) > 0 /\ p[1] = "/" THEN p
    ELSE IF Len(a) = 0 \/ a[Len(a)] = "/" THEN a \o p
    ELSE a \o <<"/">> \o p

----------------------------------------------------------------------------
(* CogManager *)

\* self.path = os.path.join(os.getcwd(), path), path = "cogs"
CogPath(wd) == PathJoin(wd, S_cogs)

IsPlugin(file) == EndsWith(file, S_py)

PluginFiles(ls) == SelectSeq(ls, IsPlugin)

\* f"{self.path.replace('/', '.')[:-1]}.{file[:-3]}"
ExtensionName(wd, file) ==
    DropLast(Replace(CogPath(wd), "/", "."), 1) \o <<".">> \o DropLast(file, 3)

\* f"cogs.{file[:-3]}"
ErrorKey(file) == S_cogs \o <<".">> \o DropLast(file, 3)

\* The dotted module name under which the import system finds a unit of the
\* plug-in directory: package "cogs" of the working directory, module the
\* file's stem.
ModuleName(file) == S_cogs \o <<".">> \o DropLast(file, 3)

\* Whether the import system resolves an identifier to a unit of the listing.
\* A name with a leading dot is a relative name, and load_extension is called
\* without a package to resolve it against.
Resolves(name, ls) ==
    /\ Len(name) > 0
    /\ name[1] # "."
    /\ \E i \in 1..Len(ls) : IsPlugin(ls[i]) /\ ModuleName(ls[i]) = name

\* bot.load_extension(name) of commands.InteractionBot: "ok" or the exception.
InteractionBotLoad(name, file, exts, ls, ok) ==
    IF ~Resolves(name, ls) THEN "ExtensionNotFound"
    ELSE IF name \in exts THEN "ExtensionAlreadyLoaded"
    ELSE IF file \notin ok THEN "ExtensionFailed"
    ELSE "ok"

\* bot.load_extension(name): the InteractionBot's, or that of a bot of another
\* type, which finds the unit under the identifier it is handed: an extension
\* it holds already is refused, and a new one is loaded unless its unit raises.
load_extension(b, name, file, exts, ls, ok) ==
    IF b = "InteractionBot" THEN InteractionBotLoad(name, file, exts, ls, ok)
    ELSE IF name \in exts THEN "ExtensionAlreadyLoaded"
    ELSE IF file \notin ok THEN "ExtensionFailed"
    ELSE "ok"

\* A loader without the except clause: the exception leaves load_cogs.
Caught_Propagates(exc) == FALSE

\* except Exception: every exception of a load attempt is caught.
Caught(exc) == TRUE

NoPass == [attempted |-> <<>>, loaded |-> <<>>, failed |-> <<>>, raised |-> FALSE]

\* The body of the for loop of load_cogs from entry i on. st holds self.cogs,
\* self.errors, the bot's extensions and the record of this pass.
RECURSIVE LoadLoop(_, _, _, _, _, _)
LoadLoop(i, st, b, wd, ls, ok) ==
    IF i > Len(ls) \/ st.pass.raised THEN st
    ELSE IF ~IsPlugin(ls[i]) THEN LoadLoop(i + 1, st, b, wd, ls, ok)
    ELSE
        LET file == ls[i]
            name == ExtensionName(wd, file)
            res == load_extension(b, name, file, st.extensions, ls, ok)
            tried == [st.pass EXCEPT !.attempted = Append(@, file)]
            next ==
                IF res = "ok" THEN
                    [st EXCEPT !.extensions = @ \cup {name},
                               !.cogs = Append(@, file),
                               !.pass = [tried EXCEPT !.loaded = Append(@, file)]]
                ELSE IF Caught(res) THEN
                    [st EXCEPT !.errors = (ErrorKey(file) :> res) @@ @,
                               !.pass = [tried EXCEPT !.failed = Append(@, file)]]
                ELSE
                    [st EXCEPT !.pass = [tried EXCEPT !.failed = Append(@, file),
                                                      !.raised = TRUE]]
        IN LoadLoop(i + 1, next, b, wd, ls, ok)

\* load_cogs: the scan of the whole listing, on the manager's current state.
load_cogs ==
    LoadLoop(1,
             [cogs |-> cogs, errors |-> errors, extensions |-> extensions,
              pass |-> NoPass],
             bot, cwd, listing, valid)

\* The listings of a plug-in directory: distinct names, in any order.
Listings ==
    {ls \in UNION {[1..n -> FileNames] : n \in 0..MaxFiles} :
        \A i, j \in 1..Len(ls) : i # j => ls[i] # ls[j]}

----------------------------------------------------------------------------
(* ConfigManager *)

\* JSON values. A scalar carries its text; an object carries its members, a
\* function from keys to scalars.
JStr(s) == [type |-> "string", text |-> s]
JNum(s) == [type |-> "number", text |-> s]
JNull == [type |-> "null", text |-> "null"]
JObj(m) == [type |-> "object", members |-> m]
JArr == [type |-> "array", members |-> <<>>]

NoMembers == [k \in {} |-> JNull]

\* Python's None, as get_token returns it for an absent key.
None == [type |-> "NoneType", text |-> "None"]

\* The documents data/config.json may hold.
Documents ==
    { JObj([TOKEN |-> JStr("abc")]),
      JObj([TOKEN |-> JStr("xyz"), PREFIX |-> JStr("!")]),
      JObj([TOKEN |-> JStr("")]),
      JObj([TOKEN |-> JNum("7")]),
      JObj([TOKEN |-> JNull, PREFIX |-> JStr("!")]),
      JObj([PREFIX |-> JStr("!")]),
      JObj(NoMembers),
      JArr }

\* What load_configs may find at self.config_file: no file, a file that
\* cannot be opened or read, a file that is not JSON, or a JSON document.
ConfigFiles ==
    { [kind |-> k, doc |-> JObj(NoMembers)] : k \in {"missing", "unreadable", "garbled"} }
    \cup { [kind |-> "json", doc |-> d] : d \in Documents }

\* ConfigManager.CONFIG_SCHEMA
CONFIG_SCHEMA ==
    [type |-> "object",
     properties |-> [TOKEN |-> [type |-> "string"]],
     required |-> {"TOKEN"}]

\* A validation that checks the required keys and not the types of the
\* properties.
validate_IgnoresPropertyTypes(instance, schema) ==
    /\ instance.type = schema.type
    /\ instance.type = "object" => schema.required \subseteq DOMAIN instance.members

\* jsonschema.validate(instance, schema): TRUE when no ValidationError is
\* raised. "properties" and "required" constrain objects only.
validate(instance, schema) ==
    /\ instance.type = schema.type
    /\ instance.type = "object" =>
        /\ \A k \in DOMAIN schema.properties :
              k \in DOMAIN instance.members =>
                  instance.members[k].type = schema.properties[k].type
        /\ schema.required \subseteq DOMAIN instance.members

\* The except clauses of load_configs: FileNotFoundError, JSONDecodeError,
\* ValidationError, and Exception for everything else.
Handled(exc) == TRUE

\* A try block that assigns self.config before it validates.
TryLoad_AssignsBeforeValidate(cfg, file) ==
    IF file.kind = "missing" THEN [config |-> cfg, outcome |-> "NotFound", exc |-> "none"]
    ELSE IF file.kind = "unreadable" THEN [config |-> cfg, outcome |-> "Unexpected", exc |-> "OSError"]
    ELSE IF file.kind = "garbled" THEN [config |-> cfg, outcome |-> "ParseError", exc |-> "JSONDecodeError"]
    ELSE IF ~validate(file.doc, CONFIG_SCHEMA) THEN [config |-> file.doc, outcome |-> "SchemaError", exc |-> "ValidationError"]
    ELSE [config |-> file.doc, outcome |-> "ok", exc |-> "none"]

\* What the try block of load_configs does with the file: the exception it
\* raises, or "ok" with the configuration it assigns.
TryLoad(cfg, file) ==
    IF file.kind = "missing" THEN [config |-> cfg, outcome |-> "NotFound", exc |-> "none"]
    ELSE IF file.kind = "unreadable" THEN [config |-> cfg, outcome |-> "Unexpected", exc |-> "OSError"]
    ELSE IF file.kind = "garbled" THEN [config |-> cfg, outcome |-> "ParseError", exc |-> "JSONDecodeError"]
    ELSE IF ~validate(file.doc, CONFIG_SCHEMA) THEN [config |-> cfg, outcome |-> "SchemaError", exc |-> "ValidationError"]
    ELSE [config |-> file.doc, outcome |-> "ok", exc |-> "none"]

\* load_configs on configuration cfg: the new configuration, the outcome
\* logged, and whether an exception left the call.
load_configs(cfg, file) ==
    LET r == TryLoad(cfg, file) IN
    [config |-> r.config, outcome |-> r.outcome,
     raised |-> r.exc # "none" /\ ~Handled(r.exc)]

\* An accessor that asks for the key in lower case.
get_token_LowerCaseKey(cfg) ==
    IF "token" \in DOMAIN cfg.members THEN cfg.members["token"] ELSE None

\* self.config.get("TOKEN")
get_token(cfg) ==
    IF "TOKEN" \in DOMAIN cfg.members THEN cfg.members["TOKEN"] ELSE None

\* The effect of one load_configs call that began with configuration cfg.
LoadedConfig(cfg, file, n, oks) ==
    LET r == load_configs(cfg, file) IN
    /\ configFile' = file
    /\ config' = r.config
    /\ outcome' = r.outcome
    /\ cfgRaised' = r.raised
    /\ configBefore' = cfg
    /\ loads' = n + 1
    /\ okLoads' = IF r.outcome = "ok" THEN oks + 1 ELSE oks

\* A later load_configs call, on whatever the file holds by then.
load_configs_call ==
    /\ loads < MaxLoads
    /\ \E file \in ConfigFiles : LoadedConfig(config, file, loads, okLoads)
    /\ token' = token
    /\ tokenRead' = FALSE
    /\ UNCHANGED <<cogVars, errVars, embVars, logVars>>

get_token_call ==
    /\ ~tokenRead
    /\ token' = get_token(config)
    /\ tokenRead' = TRUE
    /\ UNCHANGED <<configFile, config, outcome, cfgRaised, configBefore, loads, okLoads>>
    /\ UNCHANGED <<cogVars, errVars, embVars, logVars>>

NextConfig == load_configs_call \/ get_token_call

----------------------------------------------------------------------------
(* Error presenter: ErrorEmbed and Bot._get_error_embed *)

\* A detail template is a sequence of parts: literal text, or a field of the
\* error instance with the way the f-string formats it. A rendered text is the
\* sequence of its fragments.
Lit(s) == [kind |-> "lit", text |-> s, attr |-> "", fmt |-> ""]
Fld(a, f) == [kind |-> "attr", text |-> "", attr |-> a, fmt |-> f]
Entry(t, title, detail) == [type |-> t, title |-> title, detail |-> detail]

\* The grave accent that opens and closes inline code in the detail texts.
Tick == Lit("<grave accent>")

\* The entries of error_map, in the order of the dict display.
ErrorEntries ==
    <<
      Entry("ExpectedClosingQuoteError", "Expected closing quote",
            <<Lit("Closing quote: "),
              Fld("close_quote", "str")>>),
      Entry("ConversionError", "Conversion error",
            <<Lit("Failed to convert argument: "),
              Fld("converter", "str"),
              Lit("\nOriginal Exception: "),
              Fld("original", "str")>>),
      Entry("MissingRequiredArgument", "Missing required argument",
            <<Lit("The argument "), Tick,
              Fld("param", "name"),
              Tick, Lit(" is required but was not provided.")>>),
      Entry("TooManyArguments", "Too many arguments",
            <<Lit("You have provided too many arguments for this command.")>>),
      Entry("BadArgument", "Bad argument",
            <<Lit("One or more arguments provided are invalid.")>>),
      Entry("CheckFailure", "Check failure",
            <<Lit("You do not have permission to run this command.")>>),
      Entry("CommandNotFound", "Command not found",
            <<Lit("The command you tried to invoke does not exist.")>>),
      Entry("DisabledCommand", "Disabled command",
            <<Lit("This command is currently disabled.")>>),
      Entry("CommandInvokeError", "Command invocation error",
            <<Lit("The command raised an error: "),
              Fld("original", "str")>>),
      Entry("CommandOnCooldown", "Command on cooldown",
            <<Lit("You need to wait "), Tick,
              Fld("retry_after", ".2f"),
              Tick, Lit(" seconds before using this command again.")>>),
      Entry("MaxConcurrencyReached", "Max concurrency reached",
            <<Lit("This command is currently being used by too many users ("),
              Fld("number", "str"),
              Lit("). Please try again later.")>>),
      Entry("UserInputError", "User input error",
            <<Lit("There was a problem with your input. Please check your command and try again.")>>),
      Entry("ObjectNotFound", "Object not found",
            <<Lit("The specified object could not be found. Object: "), Tick,
              Fld("argument", "str"),
              Tick>>),
      Entry("MemberNotFound", "Member not found",
            <<Lit("The specified member "), Tick,
              Fld("argument", "str"),
              Tick, Lit(" could not be found.")>>),
      Entry("GuildNotFound", "Guild not found",
            <<Lit("The specified guild "), Tick,
              Fld("argument", "str"),
              Tick, Lit(" could not be found.")>>),
      Entry("UserNotFound", "User not found",
            <<Lit("The specified user "), Tick,
              Fld("argument", "str"),
              Tick, Lit(" could not be found.")>>),
      Entry("ChannelNotFound", "Channel not found",
            <<Lit("The specified channel "), Tick,
              Fld("argument", "str"),
              Tick, Lit(" could not be found.")>>),
      Entry("ThreadNotFound", "Thread not found",
            <<Lit("The specified thread "), Tick,
              Fld("argument", "str"),
              Tick, Lit(" could not be found.")>>),
      Entry("ChannelNotReadable", "Channel not readable",
            <<Lit("The bot cannot read messages in "), Tick,
              Fld("argument", "mention"),
              Tick, Lit(" ("), Tick,
              Fld("argument", "id"),
              Tick, Lit(").")>>),
      Entry("BadColourArgument", "Invalid color argument",
            <<Lit("The specified color "), Tick,
              Fld("argument", "str"),
              Tick, Lit(" is not valid.")>>),
      Entry("RoleNotFound", "Role not found",
            <<Lit("The specified role "), Tick,
              Fld("argument", "str"),
              Tick, Lit(" could not be found.")>>),
      Entry("BadInviteArgument", "Invalid invite",
            <<Lit("The specified invite link "), Tick,
              Fld("argument", "str"),
              Tick, Lit(" is invalid or expired.")>>),
      Entry("EmojiNotFound", "Emoji not found",
            <<Lit("The specified emoji "), Tick,
              Fld("argument", "str"),
              Tick, Lit(" could not be found.")>>),
      Entry("GuildStickerNotFound", "Sticker not found",
            <<Lit("The specified sticker "), Tick,
              Fld("argument", "str"),
              Tick, Lit(" could not be found.")>>),
      Entry("GuildScheduledEventNotFound", "Scheduled event not found",
            <<Lit("The specified scheduled event "), Tick,
              Fld("argument", "str"),
              Tick, Lit(" could not be found.")>>),
      Entry("PartialEmojiConversionFailure", "Partial emoji conversion failure",
            <<Lit("The specified emoji "), Tick,
              Fld("argument", "str"),
              Tick, Lit(" could not be converted.")>>),
      Entry("BadBoolArgument", "Bad boolean argument",
            <<Lit("The specified boolean argument "), Tick,
              Fld("argument", "str"),
              Tick, Lit(" is not recognized.")>>),
      Entry("LargeIntConversionFailure", "Large integer conversion failure",
            <<Lit("The specified argument "), Tick,
              Fld("argument", "str"),
              Tick, Lit(" could not be converted to an integer.")>>),
      Entry("DisabledCommand", "Disabled command",
            <<Lit("This command is currently disabled.")>>),
      Entry("MissingRole", "Missing role",
            <<Lit("You are missing "), Tick,
              Fld("missing_role", "repr"),
              Tick, Lit(" to run this command.")>>),
      Entry("BotMissingRole", "Bot missing role",
            <<Lit("The bot is missing "), Tick,
              Fld("missing_role", "repr"),
              Tick, Lit(" to run this command.")>>),
      Entry("MissingAnyRole", "Missing any role",
            <<Lit("You are missing at least one of these roles to run this command: "),
              Fld("missing_roles", "join")>>),
      Entry("BotMissingAnyRole", "Bot missing any role",
            <<Lit("The bot is missing at least one of these roles to run this command: "),
              Fld("missing_roles", "join")>>),
      Entry("MissingPermissions", "Missing permissions",
            <<Lit("You are missing "),
              Fld("missing_permissions", "perms"),
              Lit(" permission(s) to run this command.")>>),
      Entry("BotMissingPermissions", "Bot missing permissions",
            <<Lit("The bot is missing "),
              Fld("missing_permissions", "perms"),
              Lit(" permission(s) to run this command.")>>),
      Entry("NSFWChannelRequired", "NSFW channel required",
            <<Lit("This command can only be used in NSFW channels.")>>),
      Entry("BadUnionArgument", "Bad union argument",
            <<Lit("The argument could not be converted to any of the expected types.")>>),
      Entry("BadLiteralArgument", "Bad literal argument",
            <<Lit("The argument did not match any of the expected literal values.")>>),
      Entry("ArgumentParsingError", "Argument parsing error",
            <<Lit("There was an issue while parsing your input.")>>),
      Entry("UnexpectedQuoteError", "Unexpected quote error",
            <<Lit("Unexpected quote mark: "),
              Fld("quote", "repr"),
              Lit(" found in input.")>>),
      Entry("InvalidEndOfQuotedStringError", "Invalid end of quoted string",
            <<Lit("Expected space after closing quote but received: "),
              Fld("char", "repr"),
              Lit(".")>>),
      Entry("ExtensionError", "Extension error",
            <<Lit("An error occurred with an extension: "),
              Fld("name", "str"),
              Lit(".")>>),
      Entry("ExtensionAlreadyLoaded", "Extension already loaded",
            <<Lit("The extension "), Tick,
              Fld("name", "str"),
              Tick, Lit(" is already loaded.")>>),
      Entry("ExtensionNotLoaded", "Extension not loaded",
            <<Lit("The extension "), Tick,
              Fld("name", "str"),
              Tick, Lit(" has not been loaded.")>>),
      Entry("NoEntryPointError", "No entry point error",
            <<Lit("The extension "), Tick,
              Fld("name", "str"),
              Tick, Lit(" has no 'setup' function.")>>),
      Entry("ExtensionFailed", "Extension failed",
            <<Lit("The extension "), Tick,
              Fld("name", "str"),
              Tick, Lit(" failed to load: "),
              Fld("original", "str")>>),
      Entry("ExtensionNotFound", "Extension not found",
            <<Lit("The extension "), Tick,
              Fld("name", "str"),
              Tick, Lit(" could not be found.")>>),
      Entry("CommandRegistrationError", "Command registration error",
            <<Lit("The command "), Tick,
              Fld("name", "str"),
              Tick, Lit(" is already an existing command or alias.")>>),
      Entry("FlagError", "Flag error",
            <<Lit("There was an issue with parsing flags.")>>),
      Entry("TooManyFlags", "Too many flags",
            <<Lit("Flag "), Tick,
              Fld("flag", "name"),
              Tick, Lit(" received too many values. Expected "),
              Fld("flag", "max_args"),
              Lit(" but received "),
              Fld("values", "len"),
              Lit(".")>>),
      Entry("BadFlagArgument", "Bad flag argument",
            <<Lit("Could not convert to "), Tick,
              Fld("flag", "annotation.__name__"),
              Tick, Lit(" for flag "), Tick,
              Fld("flag", "name"),
              Tick, Lit(".")>>),
      Entry("MissingRequiredFlag", "Missing required flag",
            <<Lit("Flag "), Tick,
              Fld("flag", "name"),
              Tick, Lit(" is required and missing.")>>),
      Entry("MissingFlagArgument", "Missing flag argument",
            <<Lit("Flag "), Tick,
              Fld("flag", "name"),
              Tick, Lit(" does not have an argument.")>>),
      Entry("PrivateMessageOnly", "Private message only",
            <<Lit("This command can only be used in a private message.")>>),
      Entry("NoPrivateMessage", "No private message",
            <<Lit("This command cannot be used in a private message.")>>),
      Entry("NotOwner", "Not owner",
            <<Lit("You are not the owner of this bot.")>>),
      Entry("CheckAnyFailure", "Check Failed",
            <<Lit("You do not have permission to run this command.")>>),
      Entry("MessageNotFound", "Message not found",
            <<Lit("The specified message "), Tick,
              Fld("argument", "str"),
              Tick, Lit(" could not be found.")>>),
      Entry("BadColorArgument", "Bad color argument",
            <<Lit("The specified color "), Tick,
              Fld("argument", "str"),
              Tick, Lit(" is not valid.")>>)
    >>

\* disnake names one class twice: errors.BadColorArgument is
\* errors.BadColourArgument.
ClassOf(t) == IF t = "BadColorArgument" THEN "BadColourArgument" ELSE t

\* The keys of error_map.
TableTypes == {ClassOf(ErrorEntries[i].type) : i \in 1..Len(ErrorEntries)}

\* The fields of the error instance that the entry at position i reads.
ReadsOf(i) ==
    {ErrorEntries[i].detail[j].attr :
        j \in {k \in 1..Len(ErrorEntries[i].detail) : ErrorEntries[i].detail[k].kind = "attr"}}

\* The fields an instance of class t carries: those the entries of its class
\* read.
FieldsOf(t) ==
    UNION {ReadsOf(i) : i \in {k \in 1..Len(ErrorEntries) : ClassOf(ErrorEntries[k].type) = t}}

\* Error classes the command framework raises that error_map has no key for.
OtherTypes == {"CommandError", "CommandSyncFailure"}

FieldValues == {"Admin", "Mod"}

\* The error instances a command-dispatch error event may carry.
ErrorInstances ==
    {[type |-> t, fields |-> [a \in FieldsOf(t) |-> v]] :
        t \in TableTypes \cup OtherTypes, v \in FieldValues}

\* One part of an f-string on the instance's fields: !r quotes the text, the
\* other formats yield the text the field stands for.
RenderPart(part, fields) ==
    IF part.kind = "lit" THEN <<part.text>>
    ELSE IF part.fmt = "repr" THEN <<"'", fields[part.attr], "'">>
    ELSE <<fields[part.attr]>>

RECURSIVE Render(_, _)
Render(detail, fields) ==
    IF detail = <<>> THEN <<>>
    ELSE RenderPart(Head(detail), fields) \o Render(Tail(detail), fields)

\* A test for None alone (additional_info is not None): the empty string counts
\* as a detail.
IsEmptyText_OnlyNone(t) == t = <<>>

\* Python's truth of a string: false when empty.
IsEmptyText(t) == \A i \in 1..Len(t) : t[i] = ""

\* ErrorEmbed.create_error_embed(error, additional_info)
create_error_embed(error, additional_info) ==
    [title |-> "__An error occurred__",
     description |->
        <<"**Error:**\n", error, "\n\n">>
        \o (IF ~IsEmptyText(additional_info)
            THEN <<"**Additional info:**\n">> \o additional_info
            ELSE <<"">>),
     color |-> "red"]

\* The fields of the instance that building error_map reads: the dict display
\* evaluates every value, whatever the type of the error.
MapReads == UNION {ReadsOf(i) : i \in 1..Len(ErrorEntries)}

default_error ==
    [title |-> "Unknown error",
     detail |-> <<"An unexpected error occurred. Please try again later.">>]

\* error_map.get(type(error), default_error): of two entries with one key the
\* later one stands.
Lookup(error) ==
    LET hits == {i \in 1..Len(ErrorEntries) : ClassOf(ErrorEntries[i].type) = error.type}
    IN IF hits = {} THEN default_error
       ELSE LET i == CHOOSE k \in hits : \A h \in hits : h <= k
            IN [title |-> ErrorEntries[i].title,
                detail |-> Render(ErrorEntries[i].detail, error.fields)]

NoEmbed == [title |-> "", description |-> <<>>, color |-> ""]

\* Bot._get_error_embed(error): the embed, or the exception raised. Reading a
\* field the instance does not carry raises AttributeError.
_get_error_embed(error) ==
    IF ~(MapReads \subseteq DOMAIN error.fields)
    THEN [raised |-> TRUE, embed |-> NoEmbed]
    ELSE LET pair == Lookup(error)
         IN [raised |-> FALSE, embed |-> create_error_embed(pair.title, pair.detail)]

NoError == [type |-> "none", fields |-> [a \in {} |-> ""]]

\* The command framework delivers a command-dispatch error event for a new
\* interaction.
dispatch_error ==
    /\ handler # "delivered"
    /\ events < MaxEvents
    /\ \E e \in ErrorInstances : event' = e
    /\ handler' = "delivered"
    /\ replies' = <<>>
    /\ events' = events + 1
    /\ UNCHANGED <<cogVars, cfgVars, embVars, logVars>>

\* Bot.on_slash_command_error: log, build the embed, send it ephemeral. An
\* exception of _get_error_embed leaves the handler before the send.
on_slash_command_error ==
    /\ handler = "delivered"
    /\ LET r == _get_error_embed(event) IN
        IF r.raised
        THEN /\ handler' = "raised"
             /\ replies' = replies
        ELSE /\ handler' = "replied"
             /\ replies' = Append(replies, [embed |-> r.embed, ephemeral |-> TRUE])
    /\ UNCHANGED <<event, events>>
    /\ UNCHANGED <<cogVars, cfgVars, embVars, logVars>>

NextErrors == dispatch_error \/ on_slash_command_error

----------------------------------------------------------------------------
(* ErrorEmbed.create_error_embed, called on its own *)

\* additional_info = None, the default of the parameter: a text with no
\* fragment. The empty string is the text whose one fragment is empty.
NoInfo == <<>>

NoPair == [title |-> "", detail |-> NoInfo]

\* The (title, detail) pairs create_error_embed is handed: those error_map and
\* default_error hold for the error instances, and each of their titles with
\* an empty detail.
Pairs ==
    {Lookup(e) : e \in ErrorInstances}
    \cup {[title |-> Lookup(e).title, detail |-> <<"">>] : e \in ErrorInstances}

\* ErrorEmbed.create_error_embed(title, detail)
create_error_embed_call ==
    /\ embeds < MaxEmbeds
    /\ \E p \in Pairs :
        /\ embedArgs' = p
        /\ embed' = create_error_embed(p.title, p.detail)
    /\ embeds' = embeds + 1
    /\ UNCHANGED <<cogVars, cfgVars, errVars, logVars>>

\* ErrorEmbed.create_error_embed(title): additional_info takes its default.
create_error_embed_default ==
    /\ embeds < MaxEmbeds
    /\ \E p \in Pairs :
        /\ embedArgs' = [title |-> p.title, detail |-> NoInfo]
        /\ embed' = create_error_embed(p.title, NoInfo)
    /\ embeds' = embeds + 1
    /\ UNCHANGED <<cogVars, cfgVars, errVars, logVars>>

NextEmbed == create_error_embed_call \/ create_error_embed_default

----------------------------------------------------------------------------
(* The shared logger: utils/logger.py *)

\* A formatted line, like a level name, is the sequence of its fragments; an
\* escape sequence is one fragment, written with ESC for the escape character.

\* ColoredFormatter.COLORS
COLORS ==
    [DEBUG |-> "ESC[0;95m", INFO |-> "ESC[0;36m", WARNING |-> "ESC[0;33m",
     ERROR |-> "ESC[0;31m", CRITICAL |-> "ESC[1;31m", SUCCESS |-> "ESC[0;32m"]

\* The reset that format puts after the level name.
RESET == "ESC[0m"

\* colorama.Fore.LIGHTBLACK_EX, which opens the console format.
LIGHTBLACK_EX == "ESC[90m"

\* logging.getLevelName after logging.addLevelName(25, "SUCCESS").
LevelNames ==
    (10 :> "DEBUG") @@ (20 :> "INFO") @@ (25 :> "SUCCESS") @@ (30 :> "WARNING")
    @@ (40 :> "ERROR") @@ (50 :> "CRITICAL")

\* The messages the shell logs.
Messages == {"Logged in as bot", "Failed to load cogs"}

\* The handlers setup_logger creates, both at the logger's level (DEBUG).
ConsoleHandler == [stream |-> "stdout", formatter |-> "ColoredFormatter", level |-> 10]
FileHandler == [stream |-> "bot.log", formatter |-> "Formatter", level |-> 10]

\* Logger.makeRecord: the record of one logging call.
makeRecord(n, levelno, msg) ==
    [name |-> "BOT", levelno |-> levelno, levelname |-> <<LevelNames[levelno]>>,
     msg |-> msg, asctime |-> ToString(n)]

NoRecord == [name |-> "", levelno |-> 0, levelname |-> <<>>, msg |-> "", asctime |-> ""]

\* logging.Formatter.format with the format
\* '%(asctime)s - %(name)s - %(levelname)s - %(message)s' after a prefix.
Formatter_format(prefix, rec) ==
    prefix \o <<rec.asctime, " - ", rec.name, " - ">> \o rec.levelname
           \o <<" - ", rec.msg>>

\* level_name in self.COLORS
InColors(levelname) == Len(levelname) = 1 /\ levelname[1] \in DOMAIN COLORS

\* The record as ColoredFormatter.format leaves it: record.levelname is
\* assigned the coloured name.
Colored(rec) ==
    IF InColors(rec.levelname)
    THEN [rec EXCEPT !.levelname = <<COLORS[rec.levelname[1]], rec.levelname[1], RESET>>]
    ELSE rec

\* ColoredFormatter.format(record): the line super().format makes of the
\* record so changed, and the record after the call.
ColoredFormatter_format(rec) ==
    [record |-> Colored(rec),
     line |-> Formatter_format(<<LIGHTBLACK_EX>>, Colored(rec))]

\* Handler.handle(record) for one handler: st holds the record and the two
\* streams.
handle(h, st) ==
    IF st.record.levelno < h.level THEN st
    ELSE IF h.formatter = "ColoredFormatter"
         THEN LET f == ColoredFormatter_format(st.record)
              IN [st EXCEPT !.record = f.record,
                            !.console = Append(@, f.line)]
         ELSE [st EXCEPT !.logFile = Append(@, Formatter_format(<<>>, st.record))]

\* Logger.callHandlers: every handler of the logger, in the order of
\* logger.handlers, on the one record.
RECURSIVE callHandlers(_, _)
callHandlers(hs, st) ==
    IF hs = <<>> THEN st
    ELSE callHandlers(Tail(hs), handle(Head(hs), st))

\* Logger.log(level, msg) on a logger with handlers hs and streams out and
\* file; the logger's own level is DEBUG.
Logger_log(hs, out, file, n, levelno, msg) ==
    IF levelno < 10 THEN [record |-> NoRecord, console |-> out, logFile |-> file]
    ELSE callHandlers(hs, [record |-> makeRecord(n, levelno, msg),
                           console |-> out, logFile |-> file])

\* _logger.debug / info / warning / error / critical / log(25, ...)
log ==
    /\ records < MaxRecords
    /\ \E levelno \in DOMAIN LevelNames, msg \in Messages :
        LET st == Logger_log(handlers, console, logFile, records + 1, levelno, msg)
        IN /\ record' = st.record
           /\ console' = st.console
           /\ logFile' = st.logFile
    /\ records' = records + 1
    /\ UNCHANGED handlers
    /\ UNCHANGED <<cogVars, cfgVars, errVars, embVars>>

NextLog == log

----------------------------------------------------------------------------
(* The plug-in loader's actions *)

\* The state after one load_cogs call returning st.
Loaded(st) ==
    /\ cogs' = st.cogs
    /\ errors' = st.errors
    /\ extensions' = st.extensions
    /\ lastPass' = st.pass
    /\ passes' = passes + 1

\* Bot.on_ready: the shell's bot is the Bot itself (Bot.__init__ hands self to
\* CogManager); every readiness notification runs load_cogs and logs the result.
on_ready ==
    /\ bot = "InteractionBot"
    /\ readyEvents < MaxPasses
    /\ LET st == load_cogs IN
        /\ Loaded(st)
        /\ report' = [loaded |-> st.cogs, failures |-> DOMAIN st.errors]
    /\ connected' = TRUE
    /\ readyEvents' = readyEvents + 1
    /\ UNCHANGED <<bot, cwd, listing, valid, helloReplies>>
    /\ UNCHANGED <<cfgVars, errVars, embVars, logVars>>

\* A load_cogs call on a CogManager built over a bot of another type.
CallLoadCogs ==
    /\ bot = "Any"
    /\ passes < MaxPasses
    /\ Loaded(load_cogs)
    /\ UNCHANGED <<bot, cwd, listing, valid, connected, readyEvents, report,
                   helloReplies>>
    /\ UNCHANGED <<cfgVars, errVars, embVars, logVars>>

\* ExampleCog.hello, dispatched once the unit that defines it is an extension
\* of the bot.
hello ==
    /\ ExtensionName(cwd, F_example) \in extensions
    /\ Len(helloReplies) < 1
    /\ helloReplies' = Append(helloReplies, "Hello!")
    /\ UNCHANGED <<bot, cwd, listing, valid, cogs, errors, extensions, passes,
                   lastPass, connected, readyEvents, report>>
    /\ UNCHANGED <<cfgVars, errVars, embVars, logVars>>

NextCogs == on_ready \/ CallLoadCogs \/ hello


----------------------------------------------------------------------------
(* Specifications *)

\* The plug-in loader and the shell: a CogManager just constructed
\* (CogManager.__init__) over some directory, for the Bot or for a bot of
\* another type.
InitCogs ==
    /\ bot \in {"InteractionBot", "Any"}
    /\ cwd \in Cwds
    /\ listing \in Listings
    /\ valid \in SUBSET {listing[i] : i \in {j \in 1..Len(listing) : IsPlugin(listing[j])}}
    /\ cogs = <<>>
    /\ errors = <<>>
    /\ extensions = {}
    /\ passes = 0
    /\ lastPass = NoPass
    /\ connected = FALSE
    /\ readyEvents = 0
    /\ report = [loaded |-> <<>>, failures |-> {}]
    /\ helloReplies = <<>>
    /\ configFile = [kind |-> "missing", doc |-> JObj(NoMembers)]
    /\ config = JObj(NoMembers)
    /\ outcome = "NotFound"
    /\ cfgRaised = FALSE
    /\ configBefore = JObj(NoMembers)
    /\ loads = 0
    /\ okLoads = 0
    /\ token = None
    /\ tokenRead = FALSE
    /\ event = NoError
    /\ handler = "idle"
    /\ replies = <<>>
    /\ events = 0
    /\ embedArgs = NoPair
    /\ embed = NoEmbed
    /\ embeds = 0
    /\ handlers = <<ConsoleHandler, FileHandler>>
    /\ record = NoRecord
    /\ console = <<>>
    /\ logFile = <<>>
    /\ records = 0

SpecCogs == InitCogs /\ [][NextCogs]_vars

\* The configuration loader: a ConfigManager just constructed
\* (ConfigManager.__init__: self.config = {}, then the first load_configs
\* call), over whatever the configuration file holds.
InitConfig ==
    /\ configFile \in ConfigFiles
    /\ config = load_configs(JObj(NoMembers), configFile).config
    /\ outcome = load_configs(JObj(NoMembers), configFile).outcome
    /\ cfgRaised = load_configs(JObj(NoMembers), configFile).raised
    /\ okLoads = IF load_configs(JObj(NoMembers), configFile).outcome = "ok" THEN 1 ELSE 0
    /\ configBefore = JObj(NoMembers)
    /\ loads = 1
    /\ token = None
    /\ tokenRead = FALSE
    /\ bot = "Any"
    /\ cwd = <<"/">>
    /\ listing = <<>>
    /\ valid = {}
    /\ cogs = <<>>
    /\ errors = <<>>
    /\ extensions = {}
    /\ passes = 0
    /\ lastPass = NoPass
    /\ connected = FALSE
    /\ readyEvents = 0
    /\ report = [loaded |-> <<>>, failures |-> {}]
    /\ helloReplies = <<>>
    /\ event = NoError
    /\ handler = "idle"
    /\ replies = <<>>
    /\ events = 0
    /\ embedArgs = NoPair
    /\ embed = NoEmbed
    /\ embeds = 0
    /\ handlers = <<ConsoleHandler, FileHandler>>
    /\ record = NoRecord
    /\ console = <<>>
    /\ logFile = <<>>
    /\ records = 0

SpecConfig == InitConfig /\ [][NextConfig]_vars

\* The error presenter and the shell's error handler: no command-dispatch
\* error event yet.
InitErrors ==
    /\ event = NoError
    /\ handler = "idle"
    /\ replies = <<>>
    /\ events = 0
    /\ bot = "InteractionBot"
    /\ cwd = <<"/">>
    /\ listing = <<>>
    /\ valid = {}
    /\ cogs = <<>>
    /\ errors = <<>>
    /\ extensions = {}
    /\ passes = 0
    /\ lastPass = NoPass
    /\ connected = FALSE
    /\ readyEvents = 0
    /\ report = [loaded |-> <<>>, failures |-> {}]
    /\ helloReplies = <<>>
    /\ configFile = [kind |-> "missing", doc |-> JObj(NoMembers)]
    /\ config = JObj(NoMembers)
    /\ outcome = "NotFound"
    /\ cfgRaised = FALSE
    /\ configBefore = JObj(NoMembers)
    /\ loads = 0
    /\ okLoads = 0
    /\ token = None
    /\ tokenRead = FALSE
    /\ embedArgs = NoPair
    /\ embed = NoEmbed
    /\ embeds = 0
    /\ handlers = <<ConsoleHandler, FileHandler>>
    /\ record = NoRecord
    /\ console = <<>>
    /\ logFile = <<>>
    /\ records = 0

SpecErrors == InitErrors /\ [][NextErrors]_vars

\* ErrorEmbed on its own: no create_error_embed call yet.
InitEmbed ==
    /\ embedArgs = NoPair
    /\ embed = NoEmbed
    /\ embeds = 0
    /\ bot = "InteractionBot"
    /\ cwd = <<"/">>
    /\ listing = <<>>
    /\ valid = {}
    /\ cogs = <<>>
    /\ errors = <<>>
    /\ extensions = {}
    /\ passes = 0
    /\ lastPass = NoPass
    /\ connected = FALSE
    /\ readyEvents = 0
    /\ report = [loaded |-> <<>>, failures |-> {}]
    /\ helloReplies = <<>>
    /\ configFile = [kind |-> "missing", doc |-> JObj(NoMembers)]
    /\ config = JObj(NoMembers)
    /\ outcome = "NotFound"
    /\ cfgRaised = FALSE
    /\ configBefore = JObj(NoMembers)
    /\ loads = 0
    /\ okLoads = 0
    /\ token = None
    /\ tokenRead = FALSE
    /\ event = NoError
    /\ handler = "idle"
    /\ replies = <<>>
    /\ events = 0
    /\ handlers = <<ConsoleHandler, FileHandler>>
    /\ record = NoRecord
    /\ console = <<>>
    /\ logFile = <<>>
    /\ records = 0

SpecEmbed == InitEmbed /\ [][NextEmbed]_vars

\* The shared logger as setup_logger("BOT", log_file="bot.log") returns it:
\* the console handler, then the file handler; or, when bot.log cannot be
\* opened, the console handler alone and the failure logged through it.
InitLog ==
    /\ handlers \in {<<ConsoleHandler, FileHandler>>, <<ConsoleHandler>>}
    /\ record = IF Len(handlers) = 2 THEN NoRecord
                ELSE Logger_log(handlers, <<>>, <<>>, 1, 40,
                                "Failed to create file handler for logging").record
    /\ console = IF Len(handlers) = 2 THEN <<>>
                 ELSE Logger_log(handlers, <<>>, <<>>, 1, 40,
                                 "Failed to create file handler for logging").console
    /\ logFile = <<>>
    /\ records = IF Len(handlers) = 2 THEN 0 ELSE 1
    /\ embedArgs = NoPair
    /\ embed = NoEmbed
    /\ embeds = 0
    /\ bot = "InteractionBot"
    /\ cwd = <<"/">>
    /\ listing = <<>>
    /\ valid = {}
    /\ cogs = <<>>
    /\ errors = <<>>
    /\ extensions = {}
    /\ passes = 0
    /\ lastPass = NoPass
    /\ connected = FALSE
    /\ readyEvents = 0
    /\ report = [loaded |-> <<>>, failures |-> {}]
    /\ helloReplies = <<>>
    /\ configFile = [kind |-> "missing", doc |-> JObj(NoMembers)]
    /\ config = JObj(NoMembers)
    /\ outcome = "NotFound"
    /\ cfgRaised = FALSE
    /\ configBefore = JObj(NoMembers)
    /\ loads = 0
    /\ okLoads = 0
    /\ token = None
    /\ tokenRead = FALSE
    /\ event = NoError
    /\ handler = "idle"
    /\ replies = <<>>
    /\ events = 0

SpecLog == InitLog /\ [][NextLog]_vars

----------------------------------------------------------------------------
(* Properties of the plug-in loader and the shell, under SpecCogs *)

\* C1: every load_cogs call returns a loaded-names list with as many entries
\* as units whose load succeeded in that call (N) and a failures map with as
\* many entries as units whose load raised (M), N + M being the number of
\* plug-in files of the directory, whatever the enumeration order.
C1_CountsMatchOutcomes ==
    passes >= 1 =>
        /\ Len(cogs) = Len(lastPass.loaded)
        /\ Cardinality(DOMAIN errors) = Len(lastPass.failed)
        /\ Len(lastPass.loaded) + Len(lastPass.failed) = Len(PluginFiles(listing))

C7_SingleValidUnitLoads ==
    /\ (/\ bot = "InteractionBot"
        /\ listing = <<F_example>>
        /\ valid = {F_example}
        /\ readyEvents = 1) =>
          /\ Resolves(ExtensionName(cwd, F_example), listing)
          /\ lastPass.loaded = <<F_example>>
          /\ Len(report.loaded) = 1
          /\ report.failures = {}
    /\ \A i \in 1..Len(helloReplies) : helloReplies[i] = "Hello!"

\* C8: over any run of the shell load_cogs is invoked exactly once, on the
\* transition to Connected, however many readiness notifications arrive.
C8_LoaderInvokedOnce ==
    bot = "InteractionBot" =>
        /\ ~connected => passes = 0
        /\ connected => passes = 1

\* C9: after every load_cogs call, however many came before it, no unit is
\* both in the loaded-names list and a key of the failures map, and no unit is
\* in the loaded-names list twice.
C9_LoadedAndFailedDisjoint ==
    passes >= 1 =>
        /\ \A i \in 1..Len(cogs) : ErrorKey(cogs[i]) \notin DOMAIN errors
        /\ \A i, j \in 1..Len(cogs) : i # j => cogs[i] # cogs[j]

----------------------------------------------------------------------------
(* Properties of the error presenter and the error handler, under SpecErrors *)

\* The (title, detail) pair the static table holds for an error instance, its
\* fields substituted, or the fallback pair for a type the table has no key
\* for.
ExpectedPair(error) ==
    IF error.type \in TableTypes THEN Lookup(error) ELSE default_error

\* C3: _get_error_embed is total: for every error instance handled it raises
\* nothing and yields the table's pair for the instance's type, or the
\* fallback pair ("Unknown error", "An unexpected error occurred. Please try
\* again later.") for a type that is no key of the table.
C3_GetErrorEmbedTotal ==
    handler \in {"replied", "raised"} =>
        /\ handler = "replied"
        /\ ~_get_error_embed(event).raised
        /\ _get_error_embed(event).embed =
              create_error_embed(ExpectedPair(event).title, ExpectedPair(event).detail)
        /\ event.type \notin TableTypes =>
              ExpectedPair(event) =
                  [title |-> "Unknown error",
                   detail |-> <<"An unexpected error occurred. Please try again later.">>]

\* C4: once on_slash_command_error has run for an event, its interaction
\* holds exactly one reply, sent ephemeral, that carries the rendered error;
\* for a MissingRole error the reply's text contains the missing role's name.
C4_ErrorEventAnswered ==
    handler \in {"replied", "raised"} =>
        /\ Len(replies) = 1
        /\ replies[1].ephemeral
        /\ event.type = "MissingRole" =>
              \E i \in 1..Len(replies[1].embed.description) :
                  replies[1].embed.description[i] = event.fields["missing_role"]

----------------------------------------------------------------------------
(* Properties of the configuration loader, under SpecConfig *)

\* A document that satisfies the schema: an object whose TOKEN is a string.
SatisfiesSchema(doc) ==
    /\ doc.type = "object"
    /\ "TOKEN" \in DOMAIN doc.members
    /\ doc.members["TOKEN"].type = "string"

EmptyOrAbsent(v) == v = None \/ (v.type = "string" /\ v.text = "")

\* C5: after a load_configs call on a JSON document that satisfies the schema
\* and holds a non-empty string TOKEN, the load has succeeded and get_token
\* returns exactly that string.
C5_ValidTokenLoads ==
    (/\ configFile.kind = "json"
     /\ SatisfiesSchema(configFile.doc)
     /\ configFile.doc.members["TOKEN"].text # "") =>
        /\ outcome = "ok"
        /\ ~cfgRaised
        /\ get_token(config) = JStr(configFile.doc.members["TOKEN"].text)
        /\ tokenRead => token = JStr(configFile.doc.members["TOKEN"].text)

\* C5's case: get_token called after such a load.
C5_Witness ==
    /\ configFile.kind = "json"
    /\ SatisfiesSchema(configFile.doc)
    /\ configFile.doc.members["TOKEN"].text # ""
    /\ tokenRead
    /\ loads >= 2

\* C6 as stated: after a load_configs call on a JSON document that lacks TOKEN
\* or whose TOKEN is no string, the load has failed with a schema-validation
\* error and get_token returns an empty or absent value.
C6_InvalidTokenLeavesNoToken ==
    (configFile.kind = "json" /\ ~SatisfiesSchema(configFile.doc)) =>
        /\ outcome = "SchemaError"
        /\ EmptyOrAbsent(get_token(config))
        /\ tokenRead => EmptyOrAbsent(token)

\* C6 amended: after a load_configs call on a JSON document that lacks TOKEN
\* or whose TOKEN is no string, the load has failed with a schema-validation
\* error and get_token returns what it returned before the call: an absent
\* value if no load had succeeded, and the token of the last successful load
\* otherwise.
C6_InvalidTokenKeepsPriorToken ==
    (configFile.kind = "json" /\ ~SatisfiesSchema(configFile.doc)) =>
        /\ outcome = "SchemaError"
        /\ ~cfgRaised
        /\ get_token(config) = get_token(configBefore)
        /\ okLoads = 0 => get_token(config) = None
        /\ tokenRead => token = get_token(configBefore)

\* C6's case: an invalid document loaded over a configuration that an earlier
\* load had set, and get_token called afterwards.
C6_Witness ==
    /\ configFile.kind = "json"
    /\ ~SatisfiesSchema(configFile.doc)
    /\ okLoads >= 1
    /\ tokenRead
    /\ token # None

\* C10: a load_configs call that fails leaves the configuration as it was
\* before the call (empty if no load had succeeded), no load_configs call
\* raises to its caller, and a call replaces the configuration only by the
\* document it read, which satisfies the schema.
C10_FailedLoadKeepsConfig ==
    /\ ~cfgRaised
    /\ configFile.kind # "json" => outcome # "ok"
    /\ outcome # "ok" => config = configBefore
    /\ outcome = "ok" =>
          /\ configFile.kind = "json"
          /\ config = configFile.doc
          /\ SatisfiesSchema(configFile.doc)
    /\ okLoads = 0 => config = JObj(NoMembers)

\* C10's case: a failed load over a configuration that an earlier load had
\* set.
C10_Witness ==
    /\ loads >= 2
    /\ outcome # "ok"
    /\ okLoads >= 1
    /\ config # JObj(NoMembers)

----------------------------------------------------------------------------
(* Properties of ErrorEmbed.create_error_embed, under SpecEmbed *)

\* A text with at least one character.
NonEmptyText(t) == \E i \in 1..Len(t) : t[i] # ""

\* The fragments of the embed's body after the "Error:" section.
AfterErrorSection(e) == SubSeq(e.description, 4, Len(e.description))

HasInfoSection(e) ==
    \E i \in 1..Len(AfterErrorSection(e)) :
        AfterErrorSection(e)[i] = "**Additional info:**\n"

\* C11: create_error_embed renders every (title, detail) pair into one embed
\* whose title is the fixed "An error occurred" heading, whose body opens with
\* an "Error:" section carrying the pair's title, and whose body has an
\* "Additional info" section, carrying the detail, if and only if the detail
\* is non-empty.
C11_EmbedRendersPair ==
    embeds > 0 =>
        /\ embed.title = "__An error occurred__"
        /\ Len(embed.description) >= 3
        /\ embed.description[1] = "**Error:**\n"
        /\ embed.description[2] = embedArgs.title
        /\ embed.description[3] = "\n\n"
        /\ HasInfoSection(embed) <=> NonEmptyText(embedArgs.detail)
        /\ HasInfoSection(embed) =>
               AfterErrorSection(embed) = <<"**Additional info:**\n">> \o embedArgs.detail
        /\ ~HasInfoSection(embed) => ~NonEmptyText(AfterErrorSection(embed))

\* A second call has rendered a pair whose detail is non-empty, and the embed
\* carries the section.
C11_Witness ==
    /\ embeds = 2
    /\ NonEmptyText(embedArgs.detail)
    /\ HasInfoSection(embed)
    /\ embed.description[2] = embedArgs.title

----------------------------------------------------------------------------
(* Properties of the shared logger, under SpecLog *)

\* The escape sequences the logger module writes.
ColourCodes == {COLORS[n] : n \in DOMAIN COLORS} \cup {RESET, LIGHTBLACK_EX}

\* The level-name field of a line of the file format: what stands between the
\* second and the third " - ".
LevelField(line) == SubSeq(line, 5, Len(line) - 2)

\* C12: every line written to the log file, for a record handled first by the
\* console handler and then by the file handler, carries the plain level name
\* (DEBUG, INFO, WARNING, ERROR, CRITICAL or SUCCESS) and no colour escape
\* code.
C12_FileLevelNamePlain ==
    handlers = <<ConsoleHandler, FileHandler>> =>
        \A i \in 1..Len(logFile) :
            /\ \A j \in 1..Len(logFile[i]) : logFile[i][j] \notin ColourCodes
            /\ Len(LevelField(logFile[i])) = 1
            /\ LevelField(logFile[i])[1] \in DOMAIN COLORS

====
